---- MODULE Spec2Model ----
(***************************************************************************)
(* The control loop of the handheld daemon (src/src/hhd/__main__.py):      *)
(* the EmitHolder event buffer, the signal notifiers and main().           *)
(*                                                                         *)
(* One control thread (the main thread of the process) runs main(); any    *)
(* number of plugin threads call the emitter; signal handlers run on the   *)
(* main thread between two of its steps.  The lock is an RLock, so a       *)
(* handler that interrupts the main thread while it holds the lock enters  *)
(* the critical section again.                                             *)
(***************************************************************************)
EXTENDS Integers, Sequences, FiniteSets, TLC

\* ------------------------------------------------------------- bounds
NumPlugins == 3       \* plugins found by autodetection
MaxEvents == 2        \* events emitted and not yet processed (control loop)
MaxSeq == 2           \* longest sequence handed to one emit call
MaxEmit == 3          \* events emitted in all (event-bus model)

Priorities == {5, 10, 20}
EventTypes == {"settings", "profile", "apply", "state", "other"}
CfgPaths == {1, 2}    \* CONFIG_DIR and CONFIG_DIR/profiles
MaxEdits == 2         \* edits of the state file by another process

\* the configuration data: leaf paths and their values, the names of the
\* profile files, the partial Configs events and profile files carry, and
\* the contents a state file that loads may have
Leaves == {"tdp", "fan"}
Names == {"racer", "gamer", "_template"}
PayloadConfigs ==
    {[l \in {"tdp"} |-> 0], [l \in {"tdp"} |-> 1], [l \in {"fan"} |-> 1]}
FileConfigs == {[l \in {"fan"} |-> 1]}
LoadedStates == {[l \in Leaves |-> 0], [l \in Leaves |-> 1]}

\* conf["hhd.http"]: disabled, or enabled with one of two port/token values
HttpCfgs == {"off", "on1", "on2"}

VARIABLES
    priority,           \* p.priority of every discovered plugin
    sorted_plugins,     \* main: sorted_plugins
    pc,                 \* position of the control thread
    idx,                \* position in the plugin sequence being iterated
    raised,             \* what raised the exception that ended the loop
    events,             \* EmitHolder._events
    batch,              \* events drained and not yet processed (the for loop)
    should_initialize,  \* main: should_initialize (TEvent)
    should_exit,        \* main: should_exit (TEvent)
    initial_run,        \* main: initial_run
    settings_changed,   \* main: settings_changed
    has_new,            \* main: has_new
    saved,              \* main: saved
    cfg_fds,            \* paths with an armed directory watch
    handlers,           \* the signal handlers are installed
    \* history variables: what has been called, never read by the program
    drained_settings,   \* the batch of this generation held a settings event
    gen_calls,          \* <<kind, plugin>> calls of the current generation
    validated,          \* strict validation passed in the current generation
    open_calls,         \* plugins whose open was invoked, in order
    close_calls,        \* plugins whose close was invoked, in order
    stale,              \* a settings event was emitted, no reload completed since
    req_pending,        \* reload requested, no RELOADING started since
    emitted,            \* every event in the order emit appended it
    delivered,          \* concatenation of the batches get_events returned
    blocked,            \* the current get_events call waited on an empty buffer
    gen_saved,          \* the save step ran in the current generation
    notified,           \* the one directory change of the quiet scenario happened
    \* the HTTP surface (lines 252-284, 372-374, 394-397)
    disk_http,          \* the hhd.http section of the state file
    http_cfg,           \* conf["hhd.http"]
    prev_http_cfg,      \* main: prev_http_cfg
    https,              \* main: https (0 is None, else the instance)
    http_made,          \* HHDHTTPServer instances constructed so far
    http_closes,        \* close calls on every instance (history)
    http_late,          \* instances updated after a close (history)
    edits,              \* edits of the state file by another process
    \* the configuration data (lines 154-158, 185-225, 295-314)
    conf,               \* main: conf, as a map from leaf paths to values
    profiles,           \* main: profiles, a map from names to Configs
    templates,          \* main: templates
    last_ev,            \* the event processed last, and whether the live
                        \* Config changed when it was processed (history)
    new_conf            \* main: new_conf, what load_state_yaml returned

vars == <<priority, sorted_plugins, pc, idx, raised, events, batch,
          should_initialize, should_exit, initial_run, settings_changed,
          has_new, saved, cfg_fds, handlers, drained_settings, gen_calls, validated,
          open_calls, close_calls, stale, req_pending, emitted, delivered,
          blocked, gen_saved, notified, disk_http, http_cfg, prev_http_cfg,
          https, http_made, http_closes, http_late, edits, conf, profiles,
          templates, last_ev, new_conf>>

loopVars == <<should_initialize, should_exit, initial_run, settings_changed,
              has_new, saved>>
histVars == <<drained_settings, gen_calls, validated, open_calls, close_calls, stale,
              req_pending>>
busHist == <<emitted, delivered, blocked>>
httpVars == <<disk_http, http_cfg, prev_http_cfg, https, http_made,
              http_closes, http_late, edits>>
confVars == <<conf, profiles, templates, last_ev, new_conf>>
extVars == <<gen_saved, notified, httpVars, confVars>>

\* ------------------------------------------------------------ helpers
Plugins == 1..NumPlugins

\* plugins.values() flattened: discovery order
Discovered == [i \in Plugins |-> i]

SeqsUpTo(S, n) == UNION {[1..k -> S] : k \in 0..n}

Range(s) == {s[i] : i \in DOMAIN s}

Reverse(s) == [i \in 1..Len(s) |-> s[Len(s) + 1 - i]]

HasSettings(s) == \E i \in DOMAIN s : s[i].type = "settings"

\* list.sort(key=...) is stable: insert each element after the elements
\* whose key is not greater.
RECURSIVE InsertByKey(_, _, _)
InsertByKey(s, p, key) ==
    IF s = <<>> THEN <<p>>
    ELSE IF key[Head(s)] <= key[p]
         THEN <<Head(s)>> \o InsertByKey(Tail(s), p, key)
         ELSE <<p>> \o s

\* a sort that is not stable: equal keys end in reverse order
RECURSIVE SortUnstable(_, _)
SortUnstable(s, key) ==
    IF s = <<>> THEN <<>>
    ELSE LET rest == SortUnstable(Tail(s), key)
             before == SelectSeq(rest, LAMBDA q : key[q] <= key[Head(s)])
             after == SelectSeq(rest, LAMBDA q : key[q] > key[Head(s)])
         IN before \o <<Head(s)>> \o after

RECURSIVE SortByPriority(_, _)
SortByPriority(s, key) ==
    IF s = <<>> THEN <<>>
    ELSE InsertByKey(SortByPriority(SubSeq(s, 1, Len(s) - 1), key),
                     s[Len(s)], key)

\* reversed(sorted_plugins)
PrepareOrderSame(s) == s

PrepareOrder(s) == Reverse(s)

\* EmitHolder.__call__: extend (a sequence) or append (one event)
ExtendFront(buf, evs) == evs \o buf

Extend(buf, evs) == buf \o evs

\* Condition.notify_all: a thread blocked in wait() is made runnable
Wake(p) ==
    IF p = "waiting" THEN "loop_top"
    ELSE IF p = "bus_wait" THEN "bus_woken"
    ELSE p

\* Config({}) (line 158) and the empty dicts of lines 154-155
EmptyConf == [l \in {} |-> 0]

\* load_state_yaml (line 191) returned nothing
LoadFailed == [ok |-> FALSE, conf |-> EmptyConf]

\* get_default_state(settings), line 197
Defaults == [l \in Leaves |-> 0]

\* lines 192-199: the live Config after the state file was read
StateAfterLoadDefaults(prev, loaded) ==
    IF ~loaded.ok THEN Defaults ELSE loaded.conf

StateAfterLoad(prev, loaded) ==
    IF ~loaded.ok
    THEN IF prev # EmptyConf THEN prev ELSE Defaults
    ELSE loaded.conf

\* line 213: name.startswith("_")
IsTemplate(n) == n \in {"_template"}

\* Config.update(partial): the leaves of partial overwrite or extend c
ConfUpdate(c, partial) ==
    [l \in DOMAIN c \cup DOMAIN partial |->
        IF l \in DOMAIN partial THEN partial[l] ELSE c[l]]

\* d[k] = v on a dict
Put(d, k, v) ==
    [x \in DOMAIN d \cup {k} |-> IF x = k THEN v ELSE d[x]]

\* lines 300-304: a profile event merges into a known profile, or inserts
ProfileEventReplace(ps, name, cfg) == Put(ps, name, cfg)

ProfileEvent(ps, name, cfg) ==
    IF name \in DOMAIN ps
    THEN [ps EXCEPT ![name] = ConfUpdate(@, cfg)]
    ELSE Put(ps, name, cfg)

\* lines 309-310: an apply event merges a known profile into the live Config
ApplyEventReplace(c, ps, name) ==
    IF name \in DOMAIN ps THEN ps[name] ELSE c

ApplyEvent(c, ps, name) ==
    IF name \in DOMAIN ps THEN ConfUpdate(c, ps[name]) ELSE c

\* line 258: http_cfg["enable"]
HttpEnabled(c) == c \in {"on1", "on2"}

\* get_default_state (line 197): the HTTP surface is off by default
DefaultHttp == "off"

\* lines 190-199 for the hhd.http section: the loaded one, or after a
\* failed load the previous one if there is one, else the default
LoadedHttp(prev, disk) ==
    {disk, IF prev = "none" THEN DefaultHttp ELSE prev}

\* line 367: if not has_new and saved
ClearsAlways(hn, sv) == sv

ClearsOwnNotification(hn, sv) == ~hn /\ sv

\* line 326: if not settings_changed
RunsPluginsAlways(sc) == TRUE

RunsPlugins(sc) == ~sc

\* lines 326-346: the plugin pass, or straight to the save step
AfterValidateNoSave(sc) == IF RunsPlugins(sc) THEN "prepare" ELSE "wait_check"

AfterValidate(sc) == IF RunsPlugins(sc) THEN "prepare" ELSE "save_begin"

\* an exception leaves the try block: the finally clause runs next
Raise(what) ==
    /\ pc' = "finally"
    /\ raised' = what

\* -------------------------------------------------------------- state
InitCommon ==
    /\ sorted_plugins = <<>>
    /\ idx = 0
    /\ raised = "none"
    /\ events = <<>>
    /\ batch = <<>>
    /\ should_initialize = FALSE
    /\ should_exit = FALSE
    /\ initial_run = TRUE
    /\ settings_changed = FALSE
    /\ has_new = FALSE
    /\ saved = FALSE
    /\ cfg_fds = {}
    /\ handlers = FALSE
    /\ drained_settings = FALSE
    /\ gen_calls = <<>>
    /\ validated = FALSE
    /\ open_calls = <<>>
    /\ close_calls = <<>>
    /\ stale = FALSE
    /\ req_pending = FALSE
    /\ emitted = <<>>
    /\ delivered = <<>>
    /\ blocked = FALSE
    /\ gen_saved = FALSE
    /\ notified = FALSE
    /\ http_cfg = "none"
    /\ prev_http_cfg = "none"
    /\ https = 0
    /\ http_made = 0
    /\ http_closes = <<>>
    /\ http_late = {}
    /\ edits = 0
    /\ conf = EmptyConf
    /\ profiles = EmptyConf
    /\ templates = EmptyConf
    /\ last_ev = [type |-> "none", name |-> "", config |-> EmptyConf,
                  changed |-> FALSE]
    /\ new_conf = LoadFailed

\* the priorities of the specification's example: 10, 5, 20 (and 20 again)
ExamplePriority ==
    [p \in Plugins |-> CASE p = 1 -> 10 [] p = 2 -> 5 [] OTHER -> 20]

Init ==
    /\ InitCommon
    /\ priority = ExamplePriority
    /\ disk_http = "off"
    /\ pc = "discover"

\* any priorities, ties included
InitOrder ==
    /\ InitCommon
    /\ priority \in [Plugins -> Priorities]
    /\ disk_http = "off"
    /\ pc = "discover"

\* ---------------------------------------------------- startup (STARTING)
\* lines 113-137: autodetection, the sorted plugin list
Discover ==
    /\ pc = "discover"
    /\ sorted_plugins' = SortByPriority(Discovered, priority)
    /\ IF sorted_plugins' = <<>>
       THEN pc' = "finally" /\ idx' = idx
       ELSE pc' = "open" /\ idx' = 1
    /\ UNCHANGED <<priority, extVars, raised, events, batch, loopVars, cfg_fds,
                   handlers, histVars, busHist>>

\* lines 143-146: p.open(emit, ctx), which may raise
Open ==
    /\ pc = "open"
    /\ open_calls' = Append(open_calls, sorted_plugins[idx])
    /\ \/ /\ Raise("open")
          /\ idx' = idx
       \/ /\ raised' = raised
          /\ IF idx < Len(sorted_plugins)
             THEN pc' = "open" /\ idx' = idx + 1
             ELSE pc' = "setup" /\ idx' = 0
    /\ UNCHANGED <<priority, extVars, sorted_plugins, events, batch, loopVars, cfg_fds,
                   handlers, drained_settings, gen_calls, validated, close_calls, stale,
                   req_pending, busHist>>

\* lines 149-168: paths, empty profiles and Config, the signal handlers
\* (signals that arrive before line 166 are not handled by the program)
Setup ==
    /\ pc = "setup"
    /\ handlers' = TRUE
    /\ pc' = "loop_top"
    /\ UNCHANGED <<priority, extVars, sorted_plugins, idx, raised, events, batch,
                   loopVars, cfg_fds, histVars, busHist>>

\* ------------------------------------------------------ the control loop
\* line 170: while not should_exit.is_set(); lines 386-387 after the loop
LoopTop ==
    /\ pc = "loop_top"
    /\ IF should_exit
       THEN /\ pc' = "finally"
            /\ UNCHANGED <<drained_settings, gen_calls, validated, gen_saved>>
       ELSE /\ pc' = "check_init"
            /\ drained_settings' = FALSE
            /\ gen_calls' = <<>>
            /\ validated' = FALSE
            /\ gen_saved' = FALSE
    /\ UNCHANGED <<priority, notified, httpVars, confVars, sorted_plugins, idx, raised, events, batch,
                   loopVars, cfg_fds, handlers, open_calls, close_calls, stale,
                   req_pending, busHist>>

\* line 176: if should_initialize.is_set() or initial_run
CheckInit ==
    /\ pc = "check_init"
    /\ IF should_initialize \/ initial_run
       THEN /\ pc' = IF initial_run THEN "reload" ELSE "reload_sleep"
            /\ req_pending' = FALSE
       ELSE /\ pc' = "drain"
            /\ req_pending' = req_pending
    /\ UNCHANGED <<priority, extVars, sorted_plugins, idx, raised, events, batch,
                   loopVars, cfg_fds, handlers, drained_settings, gen_calls, validated,
                   open_calls, close_calls, stale, busHist>>

\* line 179: sleep(POLL_DELAY)
ReloadSleep ==
    /\ pc = "reload_sleep"
    /\ pc' = "reload"
    /\ UNCHANGED <<priority, extVars, sorted_plugins, idx, raised, events, batch,
                   loopVars, cfg_fds, handlers, histVars, busHist>>

\* lines 180-225: Settings, state and profiles are loaded again; loading the
\* settings file or validating a profile file (line 212) may raise
Reload ==
    /\ pc = "reload"
    /\ initial_run' = FALSE
    /\ \/ /\ Raise("reload")
          /\ http_cfg' \in {http_cfg} \cup LoadedHttp(http_cfg, disk_http)
       \/ /\ pc' = "reload_watch"
          /\ raised' = raised
          /\ http_cfg' \in LoadedHttp(http_cfg, disk_http)
    /\ UNCHANGED <<priority, gen_saved, notified, disk_http, prev_http_cfg,
                   https, http_made, http_closes, http_late, edits, confVars,
                   sorted_plugins, idx, events, batch,
                   should_initialize, should_exit, settings_changed, has_new,
                   saved, cfg_fds, handlers, histVars, busHist>>

\* lines 227-250: the old watches are closed, then every path is opened and
\* armed in turn; os.open and fcntl are not guarded, so they may raise
ReloadWatch ==
    /\ pc = "reload_watch"
    /\ \/ /\ cfg_fds' = CfgPaths
          /\ pc' = "reload_clear"
          /\ raised' = raised
       \/ /\ \E k \in CfgPaths : cfg_fds' = {j \in CfgPaths : j < k}
          /\ Raise("watch")
    /\ UNCHANGED <<priority, extVars, sorted_plugins, idx, events, batch, loopVars,
                   handlers, histVars, busHist>>

\* https.close() on the instance i
HttpClosed(closes, i) ==
    IF i = 0 THEN closes ELSE [closes EXCEPT ![i] = @ + 1]

\* lines 252-287: the HTTP surface is set up again if its section changed
\* (the old instance is closed and stays referenced; a new one is built,
\* updated and opened if the section enables it, and open may raise), then
\* should_initialize.clear()
ReloadClear ==
    /\ pc = "reload_clear"
    /\ IF http_cfg # prev_http_cfg
       THEN /\ prev_http_cfg' = http_cfg
            /\ IF HttpEnabled(http_cfg)
               THEN /\ https' = http_made + 1
                    /\ http_made' = http_made + 1
                    /\ http_closes' = Append(HttpClosed(http_closes, https), 0)
               ELSE /\ http_closes' = HttpClosed(http_closes, https)
                    /\ UNCHANGED <<https, http_made>>
       ELSE UNCHANGED <<prev_http_cfg, https, http_made, http_closes>>
    /\ \/ /\ should_initialize' = FALSE
          /\ stale' = FALSE
          /\ pc' = "drain"
          /\ raised' = raised
       \/ /\ https' # https
          /\ Raise("http")
          /\ UNCHANGED <<should_initialize, stale>>
    /\ UNCHANGED <<priority, gen_saved, notified, disk_http, http_cfg,
                   http_late, edits, confVars, sorted_plugins, idx, events, batch,
                   should_exit, initial_run, settings_changed, has_new, saved,
                   cfg_fds, handlers, drained_settings, gen_calls, validated,
                   open_calls, close_calls, req_pending, busHist>>

\* lines 294-295 with get_events (58-64, timeout = -1: it never waits)
Drain ==
    /\ pc = "drain"
    /\ settings_changed' = FALSE
    /\ batch' = events
    /\ drained_settings' = HasSettings(events)
    /\ events' = <<>>
    /\ pc' = "process"
    /\ UNCHANGED <<priority, extVars, sorted_plugins, idx, raised, should_initialize,
                   should_exit, initial_run, has_new, saved, cfg_fds, handlers,
                   gen_calls, validated, open_calls, close_calls, stale,
                   req_pending, busHist>>

\* lines 295-314: one iteration of the for loop over the drained events
Process ==
    /\ pc = "process"
    /\ IF batch = <<>>
       THEN /\ pc' = "validate"
            /\ UNCHANGED <<batch, settings_changed, raised>>
       ELSE /\ batch' = Tail(batch)
            /\ \/ /\ Head(batch).type = "settings"
                  /\ settings_changed' = TRUE
                  /\ UNCHANGED <<pc, raised>>
               \/ /\ Head(batch).type = "profile"
                  /\ settings_changed' = settings_changed
                  /\ \/ UNCHANGED <<pc, raised>>
                     \/ Raise("profile")
               \/ /\ Head(batch).type \in {"apply", "state", "other"}
                  /\ UNCHANGED <<pc, raised, settings_changed>>
    /\ UNCHANGED <<priority, extVars, sorted_plugins, idx, events, should_initialize,
                   should_exit, initial_run, has_new, saved, cfg_fds, handlers,
                   histVars, busHist>>

\* lines 316-326: strict validation, which may raise; then the reinitialize
\* flag is set if the settings changed, and the plugin pass is chosen
ValidateIgnored ==
    /\ pc' = "prepare"
    /\ idx' = 1
    /\ UNCHANGED <<raised, validated, should_initialize, req_pending>>

\* line 317: validate_config raises, nothing catches it
ValidateRaises ==
    /\ Raise("validate")
    /\ UNCHANGED <<validated, should_initialize, req_pending, idx>>

Validate ==
    /\ pc = "validate"
    /\ \/ ValidateRaises
       \/ /\ validated' = TRUE
          /\ raised' = raised
          /\ should_initialize' = (should_initialize \/ settings_changed)
          /\ req_pending' = (req_pending \/ settings_changed)
          /\ pc' = AfterValidate(settings_changed)
          /\ idx' = IF pc' = "prepare" THEN 1 ELSE 0
    /\ UNCHANGED <<priority, extVars, sorted_plugins, events, batch, should_exit,
                   initial_run, settings_changed, has_new, saved, cfg_fds,
                   handlers, drained_settings, gen_calls, open_calls, close_calls,
                   stale, busHist>>

\* lines 331-334: p.prepare(conf) over reversed(sorted_plugins)
Prepare ==
    /\ pc = "prepare"
    /\ gen_calls' =
         Append(gen_calls, <<"prepare", PrepareOrder(sorted_plugins)[idx]>>)
    /\ \/ /\ Raise("prepare")
          /\ idx' = idx
       \/ /\ raised' = raised
          /\ IF idx < Len(sorted_plugins)
             THEN pc' = "prepare" /\ idx' = idx + 1
             ELSE pc' = "update" /\ idx' = 1
    /\ UNCHANGED <<priority, extVars, sorted_plugins, events, batch, loopVars, cfg_fds,
                   handlers, drained_settings, validated, open_calls, close_calls,
                   stale, req_pending, busHist>>

\* lines 336-340: p.update(conf) over sorted_plugins
Update ==
    /\ pc = "update"
    /\ gen_calls' = Append(gen_calls, <<"update", sorted_plugins[idx]>>)
    /\ \/ /\ Raise("update")
          /\ idx' = idx
       \/ /\ raised' = raised
          /\ IF idx < Len(sorted_plugins)
             THEN pc' = "update" /\ idx' = idx + 1
             ELSE pc' = "save_begin" /\ idx' = 0
    /\ UNCHANGED <<priority, extVars, sorted_plugins, events, batch, loopVars, cfg_fds,
                   handlers, drained_settings, validated, open_calls, close_calls,
                   stale, req_pending, busHist>>

\* lines 346-347
SaveBegin ==
    /\ pc = "save_begin"
    /\ has_new' = should_initialize
    /\ saved' = FALSE
    /\ pc' = "save_write"
    /\ UNCHANGED <<priority, extVars, sorted_plugins, idx, raised, events, batch,
                   should_initialize, should_exit, initial_run,
                   settings_changed, cfg_fds, handlers, histVars, busHist>>

\* lines 349-367: state, profiles and template are written; each write tells
\* whether the file changed, and the state file may be one of those written
SaveWrite ==
    /\ pc = "save_write"
    /\ saved' \in BOOLEAN
    /\ disk_http' \in IF saved' THEN {disk_http, http_cfg} ELSE {disk_http}
    /\ gen_saved' = TRUE
    /\ pc' = IF ClearsOwnNotification(has_new, saved')
             THEN "save_clear" ELSE "wait_check"
    /\ UNCHANGED <<priority, notified, http_cfg, prev_http_cfg, https,
                   http_made, http_closes, http_late, edits, confVars,
                   sorted_plugins, idx, raised, events, batch,
                   should_initialize, should_exit, initial_run,
                   settings_changed, has_new, cfg_fds, handlers, histVars,
                   busHist>>

\* lines 369-370: after sleep(MODIFY_DELAY), should_initialize.clear()
SaveClear ==
    /\ pc = "save_clear"
    /\ should_initialize' = FALSE
    /\ pc' = "wait_check"
    /\ UNCHANGED <<priority, extVars, sorted_plugins, idx, raised, events, batch,
                   should_exit, initial_run, settings_changed, has_new, saved,
                   cfg_fds, handlers, histVars, busHist>>

\* lines 372-383: the state is pushed to the HTTP surface if https is set;
\* then the lock is taken and the wait condition evaluated
WaitCheck ==
    /\ pc = "wait_check"
    /\ http_late' = IF https # 0 /\ http_closes[https] > 0
                    THEN http_late \cup {https}
                    ELSE http_late
    /\ pc' = IF /\ ~should_exit
                /\ ~settings_changed
                /\ ~should_initialize
                /\ events = <<>>
             THEN "wait_enter"
             ELSE "loop_top"
    /\ UNCHANGED <<priority, gen_saved, notified, disk_http, http_cfg,
                   prev_http_cfg, https, http_made, http_closes, edits,
                   confVars, sorted_plugins, idx, raised, events, batch,
                   loopVars, cfg_fds, handlers, histVars, busHist>>

\* line 384: cond.wait registers the waiter and releases the lock
WaitEnter ==
    /\ pc = "wait_enter"
    /\ pc' = "waiting"
    /\ UNCHANGED <<priority, extVars, sorted_plugins, idx, raised, events, batch,
                   loopVars, cfg_fds, handlers, histVars, busHist>>

\* line 384: cond.wait(timeout=POLL_DELAY) times out
WaitTimeoutNever ==
    /\ FALSE
    /\ UNCHANGED vars

WaitTimeout ==
    /\ pc = "waiting"
    /\ pc' = "loop_top"
    /\ UNCHANGED <<priority, extVars, sorted_plugins, idx, raised, events, batch,
                   loopVars, cfg_fds, handlers, histVars, busHist>>

\* ------------------------------------------------------ unwind (STOPPING)
\* lines 388-393: the watch descriptors are closed
Finally ==
    /\ pc = "finally"
    /\ cfg_fds' = {}
    /\ pc' = "finally_http"
    /\ UNCHANGED <<priority, extVars, sorted_plugins, idx, raised, events,
                   batch, loopVars, handlers, histVars, busHist>>

\* lines 394-397: if https: https.close()
FinallyHttp ==
    /\ pc = "finally_http"
    /\ http_closes' = HttpClosed(http_closes, https)
    /\ pc' = "close"
    /\ idx' = 1
    /\ UNCHANGED <<priority, gen_saved, notified, disk_http, http_cfg,
                   prev_http_cfg, https, http_made, http_late, edits, confVars,
                   sorted_plugins, raised, events, batch, loopVars, cfg_fds,
                   handlers, histVars, busHist>>

\* lines 398-403: p.close() over plugins.values(); a close that raises leaves
\* the finally clause
Close ==
    /\ pc = "close"
    /\ close_calls' = Append(close_calls, Discovered[idx])
    /\ \/ /\ pc' = "stopped"
          /\ raised' = "close"
          /\ idx' = idx
       \/ /\ raised' = raised
          /\ IF idx < Len(Discovered)
             THEN pc' = "close" /\ idx' = idx + 1
             ELSE pc' = "stopped" /\ idx' = 0
    /\ UNCHANGED <<priority, extVars, sorted_plugins, events, batch, loopVars, cfg_fds,
                   handlers, drained_settings, gen_calls, validated, open_calls, stale,
                   req_pending, busHist>>

Control ==
    \/ Discover \/ Open \/ Setup
    \/ LoopTop \/ CheckInit \/ ReloadSleep \/ Reload \/ ReloadWatch
    \/ ReloadClear \/ Drain \/ Process \/ Validate \/ Prepare \/ Update
    \/ SaveBegin \/ SaveWrite \/ SaveClear
    \/ WaitCheck \/ WaitEnter \/ WaitTimeout
    \/ Finally \/ FinallyHttp \/ Close

\* ------------------------------------------------------- the environment
\* lines 50-56: emit from a plugin (its own thread, or inside one of its
\* calls on the control thread); the lock is free unless the control thread
\* holds it between lines 377 and 384.  The identity of an event (tag) is
\* followed in the event-bus model only.
Emit ==
    /\ open_calls # <<>>
    /\ pc \notin {"wait_enter", "stopped"}
    /\ \E ts \in SeqsUpTo(EventTypes, MaxSeq) :
        /\ Len(events) + Len(batch) + Len(ts) <= MaxEvents
        /\ LET evs == [i \in 1..Len(ts) |-> [type |-> ts[i], tag |-> 0]]
           IN /\ events' = Extend(events, evs)
              /\ stale' = (stale \/ HasSettings(evs))
    /\ pc' = Wake(pc)
    /\ UNCHANGED <<priority, extVars, sorted_plugins, idx, raised, batch, loopVars,
                   cfg_fds, handlers, drained_settings, gen_calls, validated,
                   open_calls, close_calls, req_pending, busHist>>

\* lines 71-77 with line 166: notifier(should_initialize, cond) on SIGPOLL,
\* sent by another process
SigPoll ==
    /\ handlers
    /\ pc # "stopped"
    /\ should_initialize' = TRUE
    /\ req_pending' = TRUE
    /\ pc' = Wake(pc)
    /\ UNCHANGED <<priority, extVars, sorted_plugins, idx, raised, events, batch,
                   should_exit, initial_run, settings_changed, has_new, saved,
                   cfg_fds, handlers, drained_settings, gen_calls, validated,
                   open_calls, close_calls, stale, busHist>>

\* lines 71-77 with lines 241-249: the kernel sends SIGPOLL when a watched
\* directory changes
Notify ==
    /\ handlers
    /\ pc # "stopped"
    /\ cfg_fds # {}
    /\ should_initialize' = TRUE
    /\ req_pending' = TRUE
    /\ pc' = Wake(pc)
    /\ UNCHANGED <<priority, gen_saved, httpVars, confVars, sorted_plugins, idx, raised, events, batch,
                   should_exit, initial_run, settings_changed, has_new, saved,
                   cfg_fds, handlers, drained_settings, gen_calls, validated,
                   open_calls, close_calls, stale, busHist>>

\* lines 71-77 with lines 167-168: notifier(should_exit, cond) on SIGINT and
\* SIGTERM
SigTerm ==
    /\ handlers
    /\ pc # "stopped"
    /\ should_exit' = TRUE
    /\ pc' = Wake(pc)
    /\ UNCHANGED <<priority, extVars, sorted_plugins, idx, raised, events, batch,
                   should_initialize, initial_run, settings_changed, has_new,
                   saved, cfg_fds, handlers, histVars, busHist>>

DirNotify ==
    /\ Notify
    /\ notified' = notified

Environment == Emit \/ SigPoll \/ DirNotify \/ SigTerm

Next == Control \/ Environment

Spec == Init /\ [][Next]_vars

FairSpec == Spec /\ WF_vars(Control)

\* the control loop under every assignment of priorities, with no emitter
NextOrder == Control \/ SigPoll \/ SigTerm

SpecOrder == InitOrder /\ [][NextOrder]_vars

\* the quiet scenario: no signal from another process, no emitted event,
\* and one change of a watched directory
DirNotifyOnce ==
    /\ ~notified
    /\ Notify
    /\ notified' = TRUE

NextQuiet == Control \/ DirNotifyOnce

SpecQuiet == Init /\ [][NextQuiet]_vars

\* the HTTP scenario: another process edits the hhd.http section of the
\* state file, which changes CONFIG_DIR; the kernel sends SIGPOLL if the
\* watch is armed (lines 241-249) and notifier runs (lines 71-77)
InitHttp ==
    /\ InitCommon
    /\ priority = ExamplePriority
    /\ disk_http \in HttpCfgs
    /\ pc = "discover"

EditHttp ==
    /\ edits < MaxEdits
    /\ pc # "stopped"
    /\ edits' = edits + 1
    /\ \E c \in HttpCfgs \ {disk_http} : disk_http' = c
    /\ IF handlers /\ cfg_fds # {}
       THEN /\ should_initialize' = TRUE
            /\ req_pending' = TRUE
            /\ pc' = Wake(pc)
       ELSE UNCHANGED <<should_initialize, req_pending, pc>>
    /\ UNCHANGED <<priority, gen_saved, notified, http_cfg, prev_http_cfg,
                   https, http_made, http_closes, http_late, confVars,
                   sorted_plugins, idx, raised, events, batch, should_exit,
                   initial_run, settings_changed, has_new, saved, cfg_fds,
                   handlers, drained_settings, gen_calls, validated,
                   open_calls, close_calls, stale, busHist>>

NextHttp == Control \/ SigTerm \/ EditHttp

SpecHttp == InitHttp /\ [][NextHttp]_vars

\* ------------------------------------------------ the configuration data
\* What RELOADING and the events do to the live Config and to the profiles
\* (lines 185-225 and 295-314), followed on the data alone.
ctlVars == <<priority, sorted_plugins, idx, raised, events, batch,
             should_initialize, should_exit, initial_run, settings_changed,
             has_new, saved, cfg_fds, handlers, histVars, busHist, gen_saved,
             notified, httpVars>>

\* the events an emitter may hand over
ConfEvents ==
    {[type |-> t, name |-> "", config |-> EmptyConf] :
        t \in {"settings", "other"}}
    \cup {[type |-> "profile", name |-> n, config |-> c] :
            n \in Names, c \in PayloadConfigs}
    \cup {[type |-> "apply", name |-> n, config |-> EmptyConf] : n \in Names}
    \cup {[type |-> "state", name |-> "", config |-> c] : c \in PayloadConfigs}

\* the .yml files of the profile directory that load_profile_yaml can read
ProfileFiles == UNION {[D -> FileConfigs] : D \in SUBSET Names}

Restrict(f, D) == [x \in DOMAIN f \cap D |-> f[x]]

InitConf ==
    /\ InitCommon
    /\ priority = ExamplePriority
    /\ disk_http = "off"
    /\ pc = "conf_load"

\* lines 185-191: load_state_yaml fails or returns the Config of the file
ConfLoad ==
    /\ pc = "conf_load"
    /\ new_conf' \in {LoadFailed}
                       \cup {[ok |-> TRUE, conf |-> c] : c \in LoadedStates}
    /\ pc' = "conf_adopt"
    /\ UNCHANGED <<ctlVars, conf, profiles, templates, last_ev>>

\* lines 192-225: the live Config is chosen, the profile directory is
\* scanned; validate_config (line 212) may raise after some of the files
ConfAdopt ==
    /\ pc = "conf_adopt"
    /\ conf' = StateAfterLoad(conf, new_conf)
    /\ \E files \in ProfileFiles :
        /\ profiles' = Restrict(files, {n \in Names : ~IsTemplate(n)})
        /\ templates' = Restrict(files, {n \in Names : IsTemplate(n)})
    /\ pc' \in {"conf_events", "conf_stopped"}
    /\ UNCHANGED <<ctlVars, new_conf, last_ev>>

\* lines 296-314: one event of the drained batch; validate_config (line
\* 305) may raise after the profile was stored
ConfProcess ==
    /\ pc = "conf_events"
    /\ \E ev \in ConfEvents :
        /\ conf' = CASE ev.type = "apply" ->
                            ApplyEvent(conf, profiles, ev.name)
                      [] ev.type = "state" -> ConfUpdate(conf, ev.config)
                      [] OTHER -> conf
        /\ profiles' = IF ev.type = "profile"
                       THEN ProfileEvent(profiles, ev.name, ev.config)
                       ELSE profiles
        /\ last_ev' = [type |-> ev.type, name |-> ev.name,
                       config |-> ev.config, changed |-> conf' # conf]
        /\ pc' \in IF ev.type = "profile"
                   THEN {"conf_events", "conf_stopped"}
                   ELSE {"conf_events"}
    /\ UNCHANGED <<ctlVars, templates, new_conf>>

\* line 176: a later generation finds the reinitialize flag set
ConfReloadAgain ==
    /\ pc = "conf_events"
    /\ pc' = "conf_load"
    /\ UNCHANGED <<ctlVars, confVars>>

NextConf == ConfLoad \/ ConfAdopt \/ ConfProcess \/ ConfReloadAgain

SpecConf == InitConf /\ [][NextConf]_vars

\* ------------------------------------------------------- the event bus
\* EmitHolder on its own (lines 45-77): producers emit, the signal notifiers
\* wake the shared condition, and the consumer calls get_events, blocking
\* (timeout # -1) or not.
InitBus ==
    /\ InitCommon
    /\ priority = ExamplePriority
    /\ disk_http = "off"
    /\ pc = "bus_idle"

\* lines 50-56: the events are appended under the lock, then notify_all
BusEmit ==
    /\ pc \in {"bus_idle", "bus_wait", "bus_woken"}
    /\ \E ts \in SeqsUpTo(EventTypes, MaxSeq) :
        /\ Len(emitted) + Len(ts) <= MaxEmit
        /\ LET evs == [i \in 1..Len(ts) |->
                         [type |-> ts[i], tag |-> Len(emitted) + i]]
           IN /\ events' = Extend(events, evs)
              /\ emitted' = emitted \o evs
    /\ pc' = Wake(pc)
    /\ UNCHANGED <<priority, extVars, sorted_plugins, idx, raised, batch, loopVars,
                   cfg_fds, handlers, histVars, delivered, blocked>>

\* lines 71-77: a signal handler sets its flag and wakes the condition
BusNotifier ==
    /\ pc \in {"bus_idle", "bus_wait", "bus_woken"}
    /\ \/ should_initialize' = TRUE /\ should_exit' = should_exit
       \/ should_exit' = TRUE /\ should_initialize' = should_initialize
    /\ pc' = Wake(pc)
    /\ UNCHANGED <<priority, extVars, sorted_plugins, idx, raised, events, batch,
                   initial_run, settings_changed, has_new, saved, cfg_fds,
                   handlers, histVars, busHist>>

\* lines 58-64: get_events(timeout); it waits once if the buffer is empty
\* and timeout # -1, else it swaps the buffer for an empty one
BusGetEvents ==
    /\ pc = "bus_idle"
    /\ \E block \in BOOLEAN :
        IF events = <<>> /\ block
        THEN /\ pc' = "bus_wait"
             /\ blocked' = TRUE
             /\ UNCHANGED <<events, batch, delivered>>
        ELSE /\ pc' = "bus_idle"
             /\ blocked' = FALSE
             /\ batch' = events
             /\ delivered' = delivered \o events
             /\ events' = <<>>
    /\ UNCHANGED <<priority, extVars, sorted_plugins, idx, raised, loopVars, cfg_fds,
                   handlers, histVars, emitted>>

\* lines 61-64: wait() returns with the lock held; the buffer is swapped
BusReturn ==
    /\ pc = "bus_woken"
    /\ pc' = "bus_idle"
    /\ batch' = events
    /\ delivered' = delivered \o events
    /\ events' = <<>>
    /\ UNCHANGED <<priority, extVars, sorted_plugins, idx, raised, loopVars, cfg_fds,
                   handlers, histVars, emitted, blocked>>

NextBus == BusNotifier \/ BusGetEvents \/ BusReturn \/ BusEmit

SpecBus == InitBus /\ [][NextBus]_vars

\* ------------------------------------------------------------- claims
PluginPcs == {"prepare", "update"}
SavePcs == {"save_begin", "save_write", "save_clear"}
WaitPcs == {"wait_check", "wait_enter", "waiting"}
UnwindPcs == {"finally", "finally_http", "close", "stopped"}

Count(s, x) == Cardinality({i \in DOMAIN s : s[i] = x})

\* C1: in a generation whose drained batch holds a settings event, no
\* prepare or update is invoked, and the reinitialize flag is set when the
\* save step begins and while it runs.
C1_SettingsSkipsPlugins ==
    drained_settings =>
        /\ gen_calls = <<>>
        /\ pc \notin PluginPcs
        /\ pc \in SavePcs => should_initialize

C1_Witness ==
    /\ drained_settings
    /\ pc = "save_write"
    /\ should_initialize

\* C2: from the emit of a settings event until the next RELOADING step has
\* completed, no prepare or update is invoked on any plugin.
C2_NoCallWithOldSettings ==
    [][~(stale /\ Len(gen_calls') > Len(gen_calls))]_vars

\* C3: the batches get_events returned, one after the other, followed by
\* what the buffer still holds, are the emitted events in the order the emit
\* calls took the lock: nothing lost, nothing twice, order kept.
C3_FifoNoLossNoDup ==
    /\ delivered \o events = emitted
    /\ \A i \in DOMAIN emitted : emitted[i].tag = i

C3_Witness ==
    /\ Len(delivered) >= 2
    /\ batch # <<>>
    /\ batch # delivered
    /\ events # <<>>

\* The calls of the generation are in order: every prepare before every
\* update, update by ascending priority with equal priorities in discovery
\* order, prepare by descending priority with equal priorities in discovery
\* order (prepareTieDiscovery) or in reverse discovery order.
OrderedCalls(prepareTieDiscovery) ==
    \A i, j \in DOMAIN gen_calls :
        i < j =>
            LET a == gen_calls[i]
                b == gen_calls[j]
            IN /\ a[1] = "update" => b[1] = "update"
               /\ (a[1] = "update" /\ b[1] = "update") =>
                     \/ priority[a[2]] < priority[b[2]]
                     \/ priority[a[2]] = priority[b[2]] /\ a[2] < b[2]
               /\ (a[1] = "prepare" /\ b[1] = "prepare") =>
                     \/ priority[a[2]] > priority[b[2]]
                     \/ /\ priority[a[2]] = priority[b[2]]
                        /\ IF prepareTieDiscovery THEN a[2] < b[2]
                                                  ELSE a[2] > b[2]

\* A plugin pass that ended without a failure called prepare and update
\* once on every plugin.
CompletePass ==
    (pc = "save_begin" /\ gen_calls # <<>>) =>
        /\ Len(gen_calls) = 2 * NumPlugins
        /\ \A p \in Plugins :
            /\ Count(gen_calls, <<"prepare", p>>) = 1
            /\ Count(gen_calls, <<"update", p>>) = 1

\* C4 as stated: prepare by descending and update by ascending priority,
\* prepare first, equal priorities in discovery order for both.
C4_TiesInDiscoveryOrder ==
    /\ OrderedCalls(TRUE)
    /\ CompletePass

\* C4 amended: as stated, but plugins of equal priority are prepared in
\* reverse discovery order (and updated in discovery order); a pass that a
\* failing call cuts short is a prefix of that sequence.
C4_PrepareTiesReversed ==
    /\ OrderedCalls(FALSE)
    /\ CompletePass

C4_Witness ==
    /\ pc = "save_begin"
    /\ Len(gen_calls) = 2 * NumPlugins
    /\ \E p, q \in Plugins : p # q /\ priority[p] = priority[q]
    /\ \E p, q \in Plugins : priority[p] # priority[q]

\* C5: when main has ended, close was invoked exactly once on every plugin
\* whose open was invoked, also when a close raised.
C5_OpenedClosedOnce ==
    pc = "stopped" =>
        \A p \in Range(open_calls) : Count(close_calls, p) = 1

\* C6: a reload request made and not yet followed by the start of a
\* RELOADING step keeps the reinitialize flag set (unless termination is
\* requested), so that the next generation reloads.  Only the flag makes
\* line 176 start a RELOADING step: a request whose flag is cleared before
\* that is followed by no RELOADING unless another request is made.
C6_NoReloadRequestLost ==
    (req_pending /\ ~should_exit) => should_initialize

\* C7: once the exit flag is set the control thread reaches the stopped
\* state; from the top of the loop with the flag set it goes nowhere but to
\* the unwind; and setting the flag moves the control thread nowhere, except
\* out of the timed wait: the generation in progress goes on.
C7_ExitLeadsToStopped ==
    /\ should_exit ~> (pc = "stopped")
    /\ [][(pc = "loop_top" /\ should_exit /\ pc' # pc) => pc' = "finally"]_vars
    /\ [][(~should_exit /\ should_exit') =>
            (pc' = Wake(pc) /\ idx' = idx /\ gen_calls' = gen_calls
             /\ raised' = raised)]_vars

C7_Witness ==
    /\ should_exit
    /\ pc = "stopped"
    /\ raised = "none"
    /\ gen_calls # <<>>

\* C8: prepare, update and the save step happen only after strict
\* validation has passed in that generation with every drained event
\* applied; when validation fails no plugin is called, nothing is saved
\* and the unwind runs.
C8_ValidatedBeforePlugins ==
    /\ (gen_calls # <<>> \/ pc \in PluginPcs \cup SavePcs \cup WaitPcs) =>
          (validated /\ batch = <<>>)
    /\ raised = "validate" =>
          (gen_calls = <<>> /\ ~validated /\ pc \in UnwindPcs)

C8_Witness ==
    /\ raised = "validate"
    /\ pc = "stopped"
    /\ Len(close_calls) = NumPlugins

\* C9: a get_events call that waited on an empty buffer returns a batch
\* that is not empty.
C9_BlockingDrainNonEmpty ==
    (pc = "bus_idle" /\ blocked) => batch # <<>>

\* C10: the control thread is blocked in the wait only while the exit flag
\* and the reinitialize flag are unset, no settings event was seen and the
\* buffer is empty.
C10_SleepsOnlyWhenIdle ==
    pc = "waiting" =>
        /\ ~should_exit
        /\ ~settings_changed
        /\ ~should_initialize
        /\ events = <<>>

IsPrefix(s, t) == Len(s) <= Len(t) /\ s = SubSeq(t, 1, Len(s))

\* C11: the unwind runs in the order watch descriptors, HTTP surface,
\* plugins; close is invoked only on plugins whose open was invoked, in the
\* order of the open calls, and on all of them when no close raises.
C11_UnwindInOpenOrder ==
    /\ pc \in {"finally_http", "close", "stopped"} => cfg_fds = {}
    /\ (pc \in {"close", "stopped"} /\ https # 0) => http_closes[https] >= 1
    /\ close_calls # <<>> => pc \in {"close", "stopped"}
    /\ IsPrefix(close_calls, open_calls)
    /\ (pc = "stopped" /\ raised # "close") => close_calls = open_calls

\* C14: a watch that cannot be set up during RELOADING does not end the
\* loop: the exception of os.open or fcntl never reaches the unwind.
C14_WatchFailureNotFatal ==
    raised # "watch"

\* the generation is over: the loop condition is evaluated next, or an
\* exception has left the loop
GenerationOver == pc \in {"loop_top", "finally"}

C17_ClearsOnlyOwnNotification ==
    /\ [](pc = "save_clear" => (~has_new /\ saved))
    /\ []((has_new /\ pc \in {"save_write", "save_clear", "wait_check",
                               "wait_enter", "waiting", "loop_top",
                               "check_init"}) => should_initialize)
    /\ [][(pc \in SavePcs /\ should_initialize /\ ~should_initialize') =>
            (pc = "save_clear" /\ ~has_new /\ saved)]_vars
    /\ [][(pc = "check_init" /\ has_new /\ pc' # pc) =>
            pc' \in {"reload", "reload_sleep"}]_vars

C17_Witness ==
    /\ has_new
    /\ saved
    /\ should_initialize
    /\ pc = "reload_sleep"

\* C19: in the quiet scenario the one directory-change notification keeps
\* the reinitialize flag set until a RELOADING step starts, so that the
\* next generation reloads; and when a RELOADING step has completed with
\* no request made since it started, the flag is clear.
C19_SingleNotificationReloads ==
    /\ (notified /\ req_pending) => should_initialize
    /\ (pc \in {"drain", "process", "validate"} /\ ~req_pending)
          => ~should_initialize

\* C20: close is invoked at most once on every HTTP server instance, and
\* exactly once when main has ended; no instance is updated after its close.
C20_HttpClosedOnceNoLateUpdate ==
    /\ \A i \in DOMAIN http_closes : http_closes[i] <= 1
    /\ pc = "stopped" => \A i \in DOMAIN http_closes : http_closes[i] = 1
    /\ http_late = {}

\* C12: a profile event for an unknown name stores its Config under that
\* name; for a known name the leaves of the payload overwrite or extend the
\* stored profile and its other leaves stay; no other profile and not the
\* live Config changes.
C12_ProfileEventUpserts ==
    [][(pc = "conf_events" /\ pc' \in {"conf_events", "conf_stopped"}
        /\ last_ev'.type = "profile") =>
        LET n == last_ev'.name
            c == last_ev'.config
        IN /\ conf' = conf
           /\ DOMAIN profiles' = DOMAIN profiles \cup {n}
           /\ \A m \in DOMAIN profiles \ {n} : profiles'[m] = profiles[m]
           /\ IF n \notin DOMAIN profiles
              THEN profiles'[n] = c
              ELSE /\ DOMAIN profiles'[n] = DOMAIN profiles[n] \cup DOMAIN c
                   /\ \A l \in DOMAIN c : profiles'[n][l] = c[l]
                   /\ \A l \in DOMAIN profiles[n] \ DOMAIN c :
                         profiles'[n][l] = profiles[n][l]]_vars

C12_Witness ==
    /\ pc = "conf_events"
    /\ last_ev.type = "profile"
    /\ last_ev.name \in DOMAIN profiles
    /\ DOMAIN profiles[last_ev.name] = Leaves
    /\ \E m \in DOMAIN profiles : m # last_ev.name /\ ~IsTemplate(m)

\* C13: an apply event for a known name overwrites in the live Config the
\* leaves of that profile and no other leaf; for an unknown name the live
\* Config stays; the profiles stay in both cases.
C13_ApplyMergesProfile ==
    [][(pc = "conf_events" /\ pc' = "conf_events"
        /\ last_ev'.type = "apply") =>
        LET n == last_ev'.name
        IN /\ profiles' = profiles
           /\ IF n \in DOMAIN profiles
              THEN /\ DOMAIN conf' = DOMAIN conf \cup DOMAIN profiles[n]
                   /\ \A l \in DOMAIN profiles[n] :
                         conf'[l] = profiles[n][l]
                   /\ \A l \in DOMAIN conf \ DOMAIN profiles[n] :
                         conf'[l] = conf[l]
              ELSE conf' = conf]_vars

C13_Witness ==
    /\ pc = "conf_events"
    /\ last_ev.type = "apply"
    /\ last_ev.changed
    /\ last_ev.name \in DOMAIN profiles
    /\ \E l \in DOMAIN conf \ DOMAIN profiles[last_ev.name] :
          conf[l] # Defaults[l]

\* C15: no name that starts with "_" is a key of the profiles mapping, and
\* an apply event that names one leaves the live Config as it was.
C15_TemplatesNeverProfiles ==
    /\ \A n \in DOMAIN profiles : ~IsTemplate(n)
    /\ (last_ev.type = "apply" /\ IsTemplate(last_ev.name))
          => ~last_ev.changed

\* C18: after the state part of RELOADING the live Config is the loaded
\* one if the load succeeded, else the previous one if there is one (the
\* Config is not the empty one main starts with), else the defaults.
C18_StateLoadFallback ==
    [][(pc = "conf_adopt" /\ pc' # pc) =>
        conf' = IF new_conf.ok THEN new_conf.conf
                ELSE IF conf = EmptyConf THEN Defaults
                ELSE conf]_vars

C18_Witness ==
    /\ pc = "conf_events"
    /\ ~new_conf.ok
    /\ last_ev.type = "none"
    /\ conf # Defaults

====
